---- MODULE Spec2Model ----
(***************************************************************************)
(* Model of the Alicloud botanist's infrastructure orchestration           *)
(* (package alicloudbotanist): DeployInfrastructure, DestroyInfrastructure,*)
(* DeployBackupInfrastructure, DestroyBackupInfrastructure,                *)
(* generateTerraformInfraConfig, fetchEIPInternetChargeType and            *)
(* cleanSnapshots.  Every call to a collaborator (terraformer, provider    *)
(* client, object store) is one step; the collaborators themselves are     *)
(* modelled from their documented contracts.                               *)
(***************************************************************************)
EXTENDS Integers, Sequences, FiniteSets, TLC

\* ---------------------------------------------------------------- bounds
\* Largest number of objects (snapshots) the backup bucket holds.
MaxObjects == 5
\* Number of keys one ListObjects page carries.
PageSize == 2
\* Largest number of zones / worker CIDRs in the shoot spec.
MaxZones == 2

VARIABLES
    op,               \* the operation invoked last ("" before the first)
    pc,               \* position of the running operation ("idle", "done", or a step)
    calls,            \* the collaborator calls of the current invocation, in order
    result,           \* what the last invocation returned
    shoot,            \* b.Shoot.Info.Spec.Cloud (+ SeedNamespace)
    shootSecret,      \* b.Shoot.Secret
    seedSecret,       \* b.Seed.Secret
    sshKey,           \* b.Secrets["ssh-keypair"].Data[id_rsa.pub]
    createVPC, vpcID, natGatewayID, snatTableID, vpcCIDR,   \* locals of DeployInfrastructure
    chargeType,       \* local of generateTerraformInfraConfig
    vals,             \* local of DeployInfrastructure: the built configuration (<<>> when none)
    stateVariables,   \* local: result of GetStateOutputVariables
    lsRes,            \* local of cleanSnapshots: the last listing
    snapshots,        \* local of cleanSnapshots: keys collected from the listing
    tfEnv,            \* the terraformer's variables environment
    tfVals,           \* the terraformer's bound configuration (<<>> when none)
    infraState,       \* infra terraform state: "absent", "empty" or "present"
    infraVpcID,       \* the vpc_id output recorded in the infra state
    infraExists,      \* whether infra resources exist at the provider
    backupState,      \* backup terraform state: "absent", "empty" or "present"
    backupResources,  \* backup resources existing at the provider
    objects,          \* keys in the backup bucket
    lastBuild,        \* the last completed configuration build (<<>> when none)
    stable            \* the collaborators of the backup destroy flow have stopped failing

vars == <<op, pc, calls, result, shoot, shootSecret, seedSecret, sshKey,
          createVPC, vpcID, natGatewayID, snatTableID, vpcCIDR, chargeType, vals,
          stateVariables, lsRes, snapshots, tfEnv, tfVals,
          infraState, infraVpcID, infraExists,
          backupState, backupResources, objects, lastBuild, stable>>

botanist == <<shoot, shootSecret, seedSecret, sshKey>>
infraLocals == <<createVPC, vpcID, natGatewayID, snatTableID, vpcCIDR, chargeType, vals>>
backupLocals == <<lsRes, snapshots>>
infraEnv == <<infraState, infraVpcID, infraExists>>
backupEnv == <<backupState, backupResources, objects>>

\* ------------------------------------------------------------ constants
\* A nil pointer / absent optional.
NilString == "<nil>"
\* State output variable names and secret keys.
BucketName == "bucketName"
StorageEndpoint == "storageEndpoint"
AccessKeyID == "accessKeyID"
AccessKeySecret == "accessKeySecret"
\* alicloud.DefaultInternetChargeType
DefaultInternetChargeType == "PayByTraffic"
ChargeTypes == {"PayByTraffic", "PayByBandwidth"}
\* Placeholder references of DeployInfrastructure.
PlaceholderVpcID == "${alicloud_vpc.vpc.id}"
PlaceholderNatGatewayID == "${alicloud_nat_gateway.nat_gateway.id}"
PlaceholderSnatTableID == "${alicloud_nat_gateway.nat_gateway.snat_table_ids}"

Keys == 1..MaxObjects
VpcIDs == {"vpc-1"}
CIDRs == {"10.0.0.0/16", "10.1.0.0/16"}
NatInfos == {<<"ngw-1", "snat-1">>, <<"ngw-2", "snat-2">>}
ZoneNames == {"a", "b"}
WorkerCIDRs == {"w1", "w2"}
Secrets == {[accessKeyID |-> "id-A", accessKeySecret |-> "secret-A"],
            [accessKeyID |-> "id-B", accessKeySecret |-> "secret-B"]}
BackupResourceKinds == {"bucket", "user", "policy"}

SeqsUpTo(S, n) == UNION {[1..k -> S] : k \in 0..n}

\* ------------------------------------------------------------- errors
\* An error value: its kind and the call it came from.  ErrNil is Go's nil.
ErrNil == [kind |-> "nil", from |-> ""]
Err(kind, from) == [kind |-> kind, from |-> from]
Failed(from) == Err("Internal", from)
Panic(what) == Err("panic", what)
NoResult == [kind |-> "none", from |-> ""]

\* terraformer.IsVariablesNotFoundError
IsVariablesNotFoundError(err) == err.kind = "VariablesNotFound"
\* apierrors.IsNotFound
IsNotFound(err) == err.kind = "NotFound"

\* ---------------------------------------------------------- call trace
\* A call record: the function, the values it returned (ret), its error, and
\* for the object store the keys listed or deleted and the truncation flag.
Call(fn, ret, err, keys, more) ==
    [fn |-> fn, ret |-> ret, err |-> err, keys |-> keys, more |-> more]
Plain(fn, err) == Call(fn, <<>>, err, {}, FALSE)
Log(c) == calls' = Append(calls, c)

Return(err) == /\ pc' = "done"
               /\ result' = err

Idle == pc \in {"idle", "done"}

\* ----------------------------------------------------- pure functions
Range(s) == {s[i] : i \in 1..Len(s)}
Min(S) == CHOOSE x \in S : \A y \in S : x <= y

RECURSIVE SortedSeq(_)
\* The keys of S in ascending order (the object store lists keys in order).
SortedSeq(S) == IF S = {} THEN <<>> ELSE <<Min(S)>> \o SortedSeq(S \ {Min(S)})

Take(s, n) == SubSeq(s, 1, IF Len(s) < n THEN Len(s) ELSE n)

\* bucket.ListObjects(): the first page of the bucket's current contents.
ListObjects(objs) ==
    [Objects |-> Take(SortedSeq(objs), PageSize),
     IsTruncated |-> Cardinality(objs) > PageSize]

\* bucket.DeleteObjects(keys): the bucket without the given keys.
DeleteObjects(objs, keys) == objs \ Range(keys)

CollectKeys_dropLast(listing) ==
    [i \in 1..(Len(listing.Objects) - 1) |-> listing.Objects[i]]

\* The loop body of cleanSnapshots collecting object.Key of every listed object.
CollectKeys(listing) == [i \in 1..Len(listing.Objects) |-> listing.Objects[i]]

\* The prefix of a Terraform variable in the environment (comment of
\* lines 120-122).
TerraformVarPrefix == "TF_VAR_"

\* terraformer.GenerateVariablesEnvironment(secret, keyValueMap): for every
\* key of the map, the variable TF_VAR_<key> with the value the secret holds
\* under the mapped name.
GenerateVariablesEnvironment(secret, keyValueMap) ==
    [n \in {TerraformVarPrefix \o k : k \in DOMAIN keyValueMap} |->
        LET k == CHOOSE k \in DOMAIN keyValueMap : TerraformVarPrefix \o k = n
        IN secret[keyValueMap[k]]]

\* Lines 125-128 and 193-196: the key map passed to GenerateVariablesEnvironment.
CredentialKeys == [ACCESS_KEY_ID |-> AccessKeyID,
                   ACCESS_KEY_SECRET |-> AccessKeySecret]

generateTerraformInfraVariablesEnvironment ==
    GenerateVariablesEnvironment(shootSecret, CredentialKeys)

generateTerraformBackupVariablesEnvironment ==
    GenerateVariablesEnvironment(seedSecret, CredentialKeys)

generateTerraformBackupConfig ==
    [alicloud |-> [region |-> "seed-region"],
     bucket |-> [name |-> "backup-infra"]]

\* ---------------------------------------------------------- terraformer
\* GetStateOutputVariables on a state: the error it reports (besides a
\* failure of the query itself).
StateLookupErr(state) ==
    CASE state = "absent" -> Err("NotFound", "GetStateOutputVariables")
      [] state = "empty" -> Err("VariablesNotFound", "GetStateOutputVariables")
      [] OTHER -> ErrNil

\* State left behind by a failed Apply.
StateAfterFailedApply(state) ==
    IF state = "absent" THEN {"absent", "empty"} ELSE {state}

\* ------------------------------------------------------------------ Init
TypeOK ==
    /\ pc \in STRING
    /\ objects \subseteq Keys
    /\ backupResources \subseteq BackupResourceKinds
    /\ backupState \in {"absent", "empty", "present"}
    /\ infraState \in {"absent", "empty", "present"}

\* The botanist and everything but the backup environment.
InitBotanist ==
    /\ op = ""
    /\ pc = "idle"
    /\ calls = <<>>
    /\ result = NoResult
    /\ shoot \in [vpcID : VpcIDs \cup {NilString},
                  vpcCIDR : {"10.1.0.0/16", NilString},
                  zones : SeqsUpTo(ZoneNames, MaxZones),
                  workers : SeqsUpTo(WorkerCIDRs, MaxZones),
                  region : {"cn-beijing"},
                  seedNamespace : {"shoot--foo--bar"}]
    /\ shootSecret \in Secrets
    /\ seedSecret \in Secrets
    /\ sshKey = "ssh-rsa AAAA"
    /\ createVPC = TRUE
    /\ vpcID = ""
    /\ natGatewayID = ""
    /\ snatTableID = ""
    /\ vpcCIDR = ""
    /\ chargeType = ""
    /\ vals = <<>>
    /\ stateVariables = <<>>
    /\ lsRes = [Objects |-> <<>>, IsTruncated |-> FALSE]
    /\ snapshots = <<>>
    /\ tfEnv = <<>>
    /\ tfVals = <<>>
    /\ infraState = "absent"
    /\ infraVpcID = ""
    /\ infraExists = FALSE
    /\ lastBuild = <<>>
    /\ stable = FALSE

\* After construction: nothing deployed yet.
Init ==
    /\ InitBotanist
    /\ backupState = "absent"
    /\ backupResources = {}
    /\ objects = {}

\* The botanist of the backup flows: the shoot spec plays no part there.
InitBackup ==
    /\ Init
    /\ shoot = [vpcID |-> NilString, vpcCIDR |-> "10.1.0.0/16", zones |-> <<>>,
                workers |-> <<>>, region |-> "cn-beijing",
                seedNamespace |-> "shoot--foo--bar"]
    /\ shootSecret = CHOOSE s \in Secrets : s.accessKeyID = "id-A"

\* The botanist of the infrastructure flows: the seed secret plays no part there.
InitInfra ==
    /\ Init
    /\ seedSecret = CHOOSE s \in Secrets : s.accessKeyID = "id-A"

\* Start of an invocation: fresh trace, fresh locals.
Begin(name) ==
    /\ Idle
    /\ op' = name
    /\ chargeType' = ""
    /\ vals' = <<>>
    /\ stateVariables' = <<>>
    /\ lsRes' = [Objects |-> <<>>, IsTruncated |-> FALSE]
    /\ snapshots' = <<>>
    /\ tfEnv' = <<>>
    /\ tfVals' = <<>>

\* ----------------------------------------------- object store (writer)
\* The etcd backup sidecar stores a snapshot in the bucket (only between
\* invocations: the purge runs without a concurrent writer).  The record of
\* the finished invocation ends here.
PutObject ==
    /\ Idle
    /\ "bucket" \in backupResources
    /\ \E k \in Keys \ objects : objects' = objects \cup {k}
    /\ pc' = "idle"
    /\ calls' = <<>>
    /\ result' = NoResult
    /\ UNCHANGED <<stable, op, botanist, infraLocals, stateVariables,
                   backupLocals, tfEnv, tfVals, infraEnv, backupState,
                   backupResources, lastBuild>>

\* ------------------------------------------- DeployBackupInfrastructure
DeployBackupInfrastructure_New ==
    /\ Begin("DeployBackupInfrastructure")
    /\ createVPC' = TRUE
    /\ vpcID' = ""
    /\ natGatewayID' = ""
    /\ snatTableID' = ""
    /\ vpcCIDR' = ""
    /\ \/ /\ calls' = <<Plain("NewBackupInfrastructureTerraformer", ErrNil)>>
          /\ pc' = "DeployBackup_SetEnv"
          /\ result' = NoResult
       \/ /\ calls' = <<Plain("NewBackupInfrastructureTerraformer",
                              Failed("NewBackupInfrastructureTerraformer"))>>
          /\ Return(Failed("NewBackupInfrastructureTerraformer"))
    /\ UNCHANGED <<stable, botanist, infraEnv, backupEnv, lastBuild>>

DeployBackupInfrastructure_SetEnv ==
    /\ pc = "DeployBackup_SetEnv"
    /\ tfEnv' = generateTerraformBackupVariablesEnvironment
    /\ Log(Plain("SetVariablesEnvironment", ErrNil))
    /\ pc' = "DeployBackup_Init"
    /\ UNCHANGED <<stable, op, result, botanist, infraLocals, stateVariables, backupLocals,
                   tfVals, infraEnv, backupEnv, lastBuild>>

DeployBackupInfrastructure_Init ==
    /\ pc = "DeployBackup_Init"
    /\ tfVals' = <<generateTerraformBackupConfig>>
    /\ Log(Plain("InitializeWith", ErrNil))
    /\ pc' = "DeployBackup_Apply"
    /\ UNCHANGED <<stable, op, result, botanist, infraLocals, stateVariables, backupLocals,
                   tfEnv, infraEnv, backupEnv, lastBuild>>

\* Apply of the backup template: on success every resource exists and the
\* outputs are recorded; on failure any part of the resources may have been
\* created and no output is recorded.
DeployBackupInfrastructure_Apply ==
    /\ pc = "DeployBackup_Apply"
    /\ \/ /\ backupResources' = BackupResourceKinds
          /\ backupState' = "present"
          /\ Log(Plain("Apply", ErrNil))
          /\ Return(ErrNil)
       \/ /\ \E created \in SUBSET BackupResourceKinds :
                 backupResources' = backupResources \cup created
          /\ backupState' \in StateAfterFailedApply(backupState)
          /\ Log(Plain("Apply", Failed("Apply")))
          /\ Return(Failed("Apply"))
    /\ UNCHANGED <<stable, op, botanist, infraLocals, stateVariables, backupLocals,
                   tfEnv, tfVals, infraEnv, objects, lastBuild>>

\* ------------------------------------------ DestroyBackupInfrastructure
DestroyBackupInfrastructure_New ==
    /\ Begin("DestroyBackupInfrastructure")
    /\ createVPC' = TRUE
    /\ vpcID' = ""
    /\ natGatewayID' = ""
    /\ snatTableID' = ""
    /\ vpcCIDR' = ""
    /\ \/ /\ calls' = <<Plain("NewBackupInfrastructureTerraformer", ErrNil)>>
          /\ pc' = "DestroyBackup_GetState"
          /\ result' = NoResult
       \/ /\ ~stable
          /\ calls' = <<Plain("NewBackupInfrastructureTerraformer",
                              Failed("NewBackupInfrastructureTerraformer"))>>
          /\ Return(Failed("NewBackupInfrastructureTerraformer"))
    /\ UNCHANGED <<stable, botanist, infraEnv, backupEnv, lastBuild>>

DestroyBackupInfrastructure_onState_swallowAll(err) ==
    IF err # ErrNil THEN [next |-> "return", err |-> ErrNil]
    ELSE [next |-> "purge", err |-> ErrNil]

\* Lines 100-107: what DestroyBackupInfrastructure does with the error of
\* GetStateOutputVariables: "purge" to go on, or the value it returns.
DestroyBackupInfrastructure_onState(err) ==
    IF err # ErrNil
    THEN IF IsVariablesNotFoundError(err)
         THEN [next |-> "return", err |-> ErrNil]
         ELSE [next |-> "return", err |-> err]
    ELSE [next |-> "purge", err |-> ErrNil]

DestroyBackupInfrastructure_GetState ==
    /\ pc = "DestroyBackup_GetState"
    /\ \E err \in {StateLookupErr(backupState)}
                   \cup (IF stable THEN {} ELSE {Failed("GetStateOutputVariables")}) :
         LET d == DestroyBackupInfrastructure_onState(err) IN
         /\ Log(Plain("GetStateOutputVariables", err))
         /\ stateVariables' = IF err = ErrNil
                              THEN <<[bucketName |-> "backup-infra",
                                      storageEndpoint |-> "oss.example"]>>
                              ELSE <<>>
         /\ IF d.next = "return"
            THEN Return(d.err)
            ELSE pc' = "cleanSnapshots_New" /\ UNCHANGED result
    /\ UNCHANGED <<stable, op, botanist, infraLocals, backupLocals, tfEnv, tfVals,
                   infraEnv, backupEnv, lastBuild>>

DestroyBackupInfrastructure_onClean_ignoreErr(err) ==
    [next |-> "destroy", err |-> ErrNil]

DestroyBackupInfrastructure_onClean_neverDestroy(err) ==
    [next |-> "return", err |-> err]

\* Lines 109-113: what DestroyBackupInfrastructure does once cleanSnapshots
\* has returned err.
DestroyBackupInfrastructure_onClean(err) ==
    IF err # ErrNil THEN [next |-> "return", err |-> err]
    ELSE [next |-> "destroy", err |-> ErrNil]

\* cleanSnapshots returns err to DestroyBackupInfrastructure.
cleanSnapshots_Return(err) ==
    LET d == DestroyBackupInfrastructure_onClean(err) IN
    IF d.next = "return"
    THEN Return(d.err)
    ELSE pc' = "DestroyBackup_SetEnv" /\ UNCHANGED result

\* oss.New(storageEndpoint, accessKeyID, accessKeySecret)
cleanSnapshots_New ==
    /\ pc = "cleanSnapshots_New"
    /\ \/ /\ Log(Plain("oss.New", ErrNil))
          /\ pc' = "cleanSnapshots_Bucket"
          /\ UNCHANGED result
       \/ /\ ~stable
          /\ Log(Plain("oss.New", Failed("oss.New")))
          /\ cleanSnapshots_Return(Failed("oss.New"))
    /\ UNCHANGED <<stable, op, botanist, infraLocals, stateVariables, backupLocals, tfEnv,
                   tfVals, infraEnv, backupEnv, lastBuild>>

\* client.Bucket(bucketName)
cleanSnapshots_Bucket ==
    /\ pc = "cleanSnapshots_Bucket"
    /\ \/ /\ Log(Plain("client.Bucket", ErrNil))
          /\ pc' = "cleanSnapshots_List"
          /\ UNCHANGED result
       \/ /\ ~stable
          /\ Log(Plain("client.Bucket", Failed("client.Bucket")))
          /\ cleanSnapshots_Return(Failed("client.Bucket"))
    /\ UNCHANGED <<stable, op, botanist, infraLocals, stateVariables, backupLocals, tfEnv,
                   tfVals, infraEnv, backupEnv, lastBuild>>

\* Lines 224-226: the loop returns the error of a failed listing.
cleanSnapshots_onList(err) ==
    IF err # ErrNil THEN "return" ELSE "delete"

\* Lines 222-229: list a page and collect its keys.
cleanSnapshots_List ==
    /\ pc = "cleanSnapshots_List"
    /\ \/ LET page == ListObjects(objects) IN
          /\ lsRes' = page
          /\ snapshots' = CollectKeys(page)
          /\ Log(Call("ListObjects", <<>>, ErrNil, Range(page.Objects), page.IsTruncated))
          /\ IF cleanSnapshots_onList(ErrNil) = "return"
             THEN cleanSnapshots_Return(ErrNil)
             ELSE pc' = "cleanSnapshots_Delete" /\ UNCHANGED result
       \/ /\ ~stable
          /\ Log(Plain("ListObjects", Failed("ListObjects")))
          /\ snapshots' = <<>>
          /\ UNCHANGED lsRes
          /\ IF cleanSnapshots_onList(Failed("ListObjects")) = "return"
             THEN cleanSnapshots_Return(Failed("ListObjects"))
             ELSE pc' = "cleanSnapshots_Delete" /\ UNCHANGED result
    /\ UNCHANGED <<stable, op, botanist, infraLocals, stateVariables, tfEnv,
                   tfVals, infraEnv, backupEnv, lastBuild>>

cleanSnapshots_onDelete_ignoreErr(err, listing) ==
    IF ~listing.IsTruncated THEN "break" ELSE "continue"

cleanSnapshots_onDelete_breakEarly(err, listing) ==
    IF err # ErrNil THEN "return" ELSE "break"

cleanSnapshots_onDelete_neverBreak(err, listing) ==
    IF err # ErrNil THEN "return" ELSE "continue"

\* Lines 231-236: after DeleteObjects, return its error, or leave the loop
\* when the listing was not truncated, or go round again.
cleanSnapshots_onDelete(err, listing) ==
    IF err # ErrNil THEN "return"
    ELSE IF ~listing.IsTruncated THEN "break" ELSE "continue"

\* What the loop does after DeleteObjects returned err.
cleanSnapshots_afterDelete(err) ==
    LET d == cleanSnapshots_onDelete(err, lsRes) IN
    CASE d = "return" -> cleanSnapshots_Return(err)
      [] d = "break" -> cleanSnapshots_Return(ErrNil)
      [] OTHER -> pc' = "cleanSnapshots_List" /\ UNCHANGED result

\* Lines 230-237: delete the collected keys as one batch, then loop or return.
cleanSnapshots_Delete ==
    /\ pc = "cleanSnapshots_Delete"
    /\ \/ /\ objects' = DeleteObjects(objects, snapshots)
          /\ Log(Call("DeleteObjects", <<>>, ErrNil, Range(snapshots), FALSE))
          /\ cleanSnapshots_afterDelete(ErrNil)
       \/ /\ ~stable
          /\ UNCHANGED objects
          /\ Log(Call("DeleteObjects", <<>>, Failed("DeleteObjects"), Range(snapshots), FALSE))
          /\ cleanSnapshots_afterDelete(Failed("DeleteObjects"))
    /\ UNCHANGED <<stable, op, botanist, infraLocals, stateVariables, backupLocals, tfEnv,
                   tfVals, infraEnv, backupState, backupResources, lastBuild>>

DestroyBackupInfrastructure_SetEnv ==
    /\ pc = "DestroyBackup_SetEnv"
    /\ tfEnv' = generateTerraformBackupVariablesEnvironment
    /\ Log(Plain("SetVariablesEnvironment", ErrNil))
    /\ pc' = "DestroyBackup_Destroy"
    /\ UNCHANGED <<stable, op, result, botanist, infraLocals, stateVariables, backupLocals,
                   tfVals, infraEnv, backupEnv, lastBuild>>

\* Destroy of the backup template: on success nothing of it is left (the
\* provider refuses to delete a bucket that still holds objects).
DestroyBackupInfrastructure_Destroy ==
    /\ pc = "DestroyBackup_Destroy"
    /\ \/ /\ objects = {}
          /\ backupResources' = {}
          /\ backupState' = "absent"
          /\ Log(Plain("Destroy", ErrNil))
          /\ Return(ErrNil)
       \/ /\ ~stable \/ objects # {}
          /\ \E removed \in SUBSET (backupResources \ {"bucket"}) :
                 backupResources' = backupResources \ removed
          /\ UNCHANGED backupState
          /\ Log(Plain("Destroy", Failed("Destroy")))
          /\ Return(Failed("Destroy"))
    /\ UNCHANGED <<stable, op, botanist, infraLocals, stateVariables, backupLocals,
                   tfEnv, tfVals, infraEnv, objects, lastBuild>>

\* ===================================================== backup flow claims
CallIdx(fns) == {i \in 1..Len(calls) : calls[i].fn \in fns}
Max(S) == CHOOSE x \in S : \A y \in S : x >= y
ListIdx == CallIdx({"ListObjects"})
DeleteIdx == CallIdx({"DeleteObjects"})
PurgeIdx == CallIdx({"ListObjects", "DeleteObjects"})
\* The purge calls of the invocation, in order.
PurgeCalls == SelectSeq(calls, LAMBDA c : c.fn \in {"ListObjects", "DeleteObjects"})

\* The purge of this invocation has run to a successful end: at least one
\* listing, every list and delete-batch succeeded, the last call of the purge
\* is the delete-batch of the last listing, and that listing was not truncated.
PurgeFullySucceeded ==
    /\ ListIdx # {}
    /\ \A i \in PurgeIdx : calls[i].err = ErrNil
    /\ ~calls[Max(ListIdx)].more
    /\ Max(PurgeIdx) = Max(ListIdx) + 1
    /\ calls[Max(PurgeIdx)].fn = "DeleteObjects"

\* C1: in DestroyBackupInfrastructure the engine's Destroy is called (or about
\* to be called) only after the purge of the same invocation has fully
\* succeeded, and every purge call precedes the Destroy call.
C1_DestroyOnlyAfterPurge ==
    op = "DestroyBackupInfrastructure" =>
        /\ ((pc \in {"DestroyBackup_SetEnv", "DestroyBackup_Destroy"}
               \/ CallIdx({"Destroy"}) # {}) => PurgeFullySucceeded)
        /\ \A d \in CallIdx({"Destroy"}) : \A i \in PurgeIdx : i < d

C1_Witness ==
    /\ op = "DestroyBackupInfrastructure"
    /\ CallIdx({"Destroy"}) # {}
    /\ Cardinality(ListIdx) >= 2

\* The results GetStateOutputVariables reports when no prior state exists:
\* no state at all, or a state without the requested outputs.
NotFoundStateKinds == {"NotFound", "VariablesNotFound"}

\* A step of DestroyBackupInfrastructure up to and including its state lookup:
\* a lookup reporting that no prior state exists ends it with success and
\* without any call to the object store or to Destroy, and nothing of the
\* backup environment changes on the way.
C2_Step ==
    /\ (pc = "DestroyBackup_GetState"
          /\ calls'[Len(calls')].err.kind \in NotFoundStateKinds)
       => (/\ pc' = "done"
           /\ result' = ErrNil
           /\ {i \in 1..Len(calls') :
                 calls'[i].fn \in {"oss.New", "client.Bucket", "ListObjects",
                                   "DeleteObjects", "Destroy",
                                   "SetVariablesEnvironment"}} = {}
           /\ UNCHANGED backupEnv)
    /\ (op' = "DestroyBackupInfrastructure" /\ pc' = "DestroyBackup_GetState")
       => UNCHANGED backupEnv

\* C2: when GetStateOutputVariables reports that no prior state exists (in
\* either of the forms the engine reports it), DestroyBackupInfrastructure
\* returns success at once, having called neither
\* the object store nor the engine's Destroy, and the bucket, the backup
\* resources and the engine state are as they were when it was invoked.
C2_NotFoundStateSkips == [][C2_Step]_vars

\* C3: the purge calls strictly alternate ListObjects / DeleteObjects, each
\* delete-batch carries exactly the keys of the listing before it, a listing
\* is followed by another only if it was truncated and its delete succeeded,
\* and when no call failed the purge ends after the n-th delete-batch, n being
\* the first listing that is not truncated; Destroy comes after all of them.
C3_PurgePagination ==
    op = "DestroyBackupInfrastructure" =>
        /\ \A j \in 1..Len(PurgeCalls) :
             /\ PurgeCalls[j].fn = IF j % 2 = 1 THEN "ListObjects" ELSE "DeleteObjects"
             /\ ((j % 2 = 0) => PurgeCalls[j].keys = PurgeCalls[j - 1].keys)
             /\ ((j < Len(PurgeCalls)) => PurgeCalls[j].err = ErrNil)
             /\ ((j % 2 = 1 /\ j + 1 < Len(PurgeCalls)) => PurgeCalls[j].more)
        /\ ((pc \in {"DestroyBackup_SetEnv", "DestroyBackup_Destroy"}
               \/ CallIdx({"Destroy"}) # {})
             => (/\ Cardinality(ListIdx) = Cardinality(DeleteIdx)
                 /\ Len(PurgeCalls) >= 2
                 /\ ~PurgeCalls[Len(PurgeCalls) - 1].more
                 /\ PurgeCalls[Len(PurgeCalls)].err = ErrNil
                 /\ \A d \in CallIdx({"Destroy"}) : d > Max(DeleteIdx)))
        /\ ((pc = "cleanSnapshots_List" /\ PurgeCalls # <<>>)
             => PurgeCalls[Len(PurgeCalls) - 1].more)

\* Three pages with flags [true, true, false], then Destroy.
C3_Witness ==
    /\ op = "DestroyBackupInfrastructure"
    /\ CallIdx({"Destroy"}) # {}
    /\ Len(PurgeCalls) = 6
    /\ PurgeCalls[1].more /\ PurgeCalls[3].more /\ ~PurgeCalls[5].more
    /\ PurgeCalls[5].keys # {}

\* C4: a failing list or delete-batch call is the last call of the
\* invocation: DestroyBackupInfrastructure has returned exactly that error,
\* no Destroy was called, and the keys of the earlier successful batches are
\* still gone from the bucket.
C4_PurgeFailureAborts ==
    op = "DestroyBackupInfrastructure" =>
        \A i \in PurgeIdx : calls[i].err # ErrNil =>
            /\ i = Len(calls)
            /\ pc = "done"
            /\ result = calls[i].err
            /\ CallIdx({"Destroy", "SetVariablesEnvironment"}) = {}
            /\ \A j \in DeleteIdx : j < i => calls[j].keys \cap objects = {}

\* The second delete-batch fails after the first one removed its keys.
C4_Witness ==
    /\ op = "DestroyBackupInfrastructure"
    /\ Len(PurgeCalls) = 4
    /\ PurgeCalls[4].err # ErrNil
    /\ PurgeCalls[2].keys # {}
    /\ objects # {}

\* C5: whenever DestroyBackupInfrastructure returns success, no backup
\* resource created by an earlier Apply still exists.
C5_SuccessfulDestroyLeavesNothing ==
    (op = "DestroyBackupInfrastructure" /\ pc = "done" /\ result = ErrNil)
        => backupResources = {}

\* The first listing of the purge returned an empty page with no continuation,
\* and the purge has returned.
EmptyFirstPagePurged ==
    /\ op = "DestroyBackupInfrastructure"
    /\ ListIdx # {}
    /\ LET first == CHOOSE i \in ListIdx : \A j \in ListIdx : i <= j IN
          /\ calls[first].err = ErrNil
          /\ calls[first].keys = {}
          /\ ~calls[first].more
    /\ pc \notin {"cleanSnapshots_List", "cleanSnapshots_Delete"}

\* C15: a purge whose first listing is an empty page with no continuation
\* makes exactly one list call, sends no delete-batch carrying keys, deletes
\* no object, and returns success.
C15_EmptyFirstPage ==
    EmptyFirstPagePurged =>
        /\ Cardinality(ListIdx) = 1
        /\ \A d \in DeleteIdx : calls[d].keys = {}
        /\ objects = {}
        /\ \A i \in PurgeIdx : calls[i].err = ErrNil
        /\ (pc = "done" => CallIdx({"Destroy"}) # {})

\* C18: whenever DestroyBackupInfrastructure is past a successful purge, about
\* to call Destroy or having called it, the bucket holds no objects.
C18_DestroyOnEmptyBucket ==
    (/\ op = "DestroyBackupInfrastructure"
     /\ \/ pc \in {"DestroyBackup_SetEnv", "DestroyBackup_Destroy"}
        \/ CallIdx({"Destroy"}) # {}) =>
        objects = {}

\* Destroy succeeded after a purge of several pages.
C18_Witness ==
    /\ op = "DestroyBackupInfrastructure"
    /\ CallIdx({"Destroy"}) # {}
    /\ result = ErrNil
    /\ Cardinality(DeleteIdx) > 1
    /\ UNION {calls[i].keys : i \in DeleteIdx} = Keys
    /\ objects = {}

NextBackup ==
    \/ PutObject
    \/ DeployBackupInfrastructure_New
    \/ DeployBackupInfrastructure_SetEnv
    \/ DeployBackupInfrastructure_Init
    \/ DeployBackupInfrastructure_Apply
    \/ DestroyBackupInfrastructure_New
    \/ DestroyBackupInfrastructure_GetState
    \/ cleanSnapshots_New
    \/ cleanSnapshots_Bucket
    \/ cleanSnapshots_List
    \/ cleanSnapshots_Delete
    \/ DestroyBackupInfrastructure_SetEnv
    \/ DestroyBackupInfrastructure_Destroy

SpecBackup == InitBackup /\ [][NextBackup]_vars

\* ======================================================= infrastructure flow
deployLocals == <<createVPC, vpcID, natGatewayID, snatTableID, vpcCIDR>>

DeployInfrastructure_locals_alwaysCreate(cloud) ==
    [createVPC |-> TRUE,
     vpcID |-> IF cloud.vpcID # NilString THEN cloud.vpcID ELSE PlaceholderVpcID,
     natGatewayID |-> PlaceholderNatGatewayID,
     snatTableID |-> PlaceholderSnatTableID]

\* Lines 31-41: the locals of DeployInfrastructure before any discovery.
DeployInfrastructure_locals(cloud) ==
    [createVPC |-> cloud.vpcID = NilString,
     vpcID |-> IF cloud.vpcID # NilString THEN cloud.vpcID ELSE PlaceholderVpcID,
     natGatewayID |-> PlaceholderNatGatewayID,
     snatTableID |-> PlaceholderSnatTableID]

\* Lines 28-51 up to the first collaborator call: adopt the given VPC (and go
\* on to discovery) or take the CIDR of the spec; dereferencing an absent CIDR
\* panics.
DeployInfrastructure_Begin ==
    /\ Begin("DeployInfrastructure")
    /\ calls' = <<>>
    /\ LET l == DeployInfrastructure_locals(shoot) IN
       /\ createVPC' = l.createVPC
       /\ vpcID' = l.vpcID
       /\ natGatewayID' = l.natGatewayID
       /\ snatTableID' = l.snatTableID
    /\ IF shoot.vpcID # NilString
       THEN /\ vpcCIDR' = ""
            /\ pc' = "Deploy_GetCIDR"
            /\ result' = NoResult
       ELSE IF shoot.vpcCIDR = NilString
            THEN /\ vpcCIDR' = ""
                 /\ Return(Panic("nil pointer dereference"))
            ELSE /\ vpcCIDR' = shoot.vpcCIDR
                 /\ pc' = "Deploy_New"
                 /\ result' = NoResult
    /\ UNCHANGED <<stable, botanist, infraEnv, backupEnv, lastBuild>>

DeployInfrastructure_onDiscovery_ignoreErr(err) == "continue"

\* Lines 42-48: a failed discovery call ends the deploy with its error.
DeployInfrastructure_onDiscovery(err) ==
    IF err # ErrNil THEN "return" ELSE "continue"

\* Line 42: b.AlicloudClient.GetCIDR(vpcID)
DeployInfrastructure_GetCIDR ==
    /\ pc = "Deploy_GetCIDR"
    /\ \/ \E cidr \in CIDRs :
            /\ vpcCIDR' = cidr
            /\ Log(Call("GetCIDR", <<cidr>>, ErrNil, {}, FALSE))
            /\ pc' = "Deploy_GetNatGatewayInfo"
            /\ UNCHANGED result
       \/ /\ vpcCIDR' = ""
          /\ Log(Plain("GetCIDR", Failed("GetCIDR")))
          /\ IF DeployInfrastructure_onDiscovery(Failed("GetCIDR")) = "return"
             THEN Return(Failed("GetCIDR"))
             ELSE pc' = "Deploy_GetNatGatewayInfo" /\ UNCHANGED result
    /\ UNCHANGED <<stable, op, botanist, createVPC, vpcID, natGatewayID, snatTableID,
                   chargeType, vals, stateVariables, backupLocals, tfEnv, tfVals,
                   infraEnv, backupEnv, lastBuild>>

\* Line 46: b.AlicloudClient.GetNatGatewayInfo(vpcID)
DeployInfrastructure_GetNatGatewayInfo ==
    /\ pc = "Deploy_GetNatGatewayInfo"
    /\ \/ \E info \in NatInfos :
            /\ natGatewayID' = info[1]
            /\ snatTableID' = info[2]
            /\ Log(Call("GetNatGatewayInfo", info, ErrNil, {}, FALSE))
            /\ pc' = "Deploy_New"
            /\ UNCHANGED result
       \/ /\ natGatewayID' = ""
          /\ snatTableID' = ""
          /\ Log(Plain("GetNatGatewayInfo", Failed("GetNatGatewayInfo")))
          /\ IF DeployInfrastructure_onDiscovery(Failed("GetNatGatewayInfo")) = "return"
             THEN Return(Failed("GetNatGatewayInfo"))
             ELSE pc' = "Deploy_New" /\ UNCHANGED result
    /\ UNCHANGED <<stable, op, botanist, createVPC, vpcID, vpcCIDR,
                   chargeType, vals, stateVariables, backupLocals, tfEnv, tfVals,
                   infraEnv, backupEnv, lastBuild>>

\* Lines 53-56: b.NewShootTerraformer(common.TerraformerPurposeInfra)
DeployInfrastructure_New ==
    /\ pc = "Deploy_New"
    /\ \/ /\ Log(Plain("NewShootTerraformer", ErrNil))
          /\ pc' = "fetch_New"
          /\ UNCHANGED result
       \/ /\ Log(Plain("NewShootTerraformer", Failed("NewShootTerraformer")))
          /\ Return(Failed("NewShootTerraformer"))
    /\ UNCHANGED <<stable, op, botanist, infraLocals, stateVariables, backupLocals,
                   tfEnv, tfVals, infraEnv, backupEnv, lastBuild>>

\* Lines 177-180: the terraformer fetchEIPInternetChargeType makes for itself.
fetchEIPInternetChargeType_New ==
    /\ pc = "fetch_New"
    /\ \/ /\ Log(Plain("NewShootTerraformer", ErrNil))
          /\ pc' = "fetch_GetState"
          /\ UNCHANGED result
       \/ /\ Log(Plain("NewShootTerraformer", Failed("NewShootTerraformer")))
          /\ Return(Failed("NewShootTerraformer"))
    /\ UNCHANGED <<stable, op, botanist, infraLocals, stateVariables, backupLocals,
                   tfEnv, tfVals, infraEnv, backupEnv, lastBuild>>

fetchEIPInternetChargeType_onState_noQuery(err) ==
    IF err # ErrNil
    THEN IF IsNotFound(err)
         THEN [next |-> "return", chargeType |-> DefaultInternetChargeType, err |-> ErrNil]
         ELSE [next |-> "return", chargeType |-> "", err |-> err]
    ELSE [next |-> "return", chargeType |-> DefaultInternetChargeType, err |-> ErrNil]

\* Lines 182-187: what fetchEIPInternetChargeType does with the error of
\* GetStateOutputVariables: the default charge type, the error, or the
\* provider query.
fetchEIPInternetChargeType_onState(err) ==
    IF err # ErrNil
    THEN IF IsNotFound(err)
         THEN [next |-> "return", chargeType |-> DefaultInternetChargeType, err |-> ErrNil]
         ELSE [next |-> "return", chargeType |-> "", err |-> err]
    ELSE [next |-> "query", chargeType |-> "", err |-> ErrNil]

\* Lines 181-187: tf.GetStateOutputVariables("vpc_id").  An error returned by
\* fetchEIPInternetChargeType is returned by generateTerraformInfraConfig
\* (line 135) and by DeployInfrastructure (line 59).
fetchEIPInternetChargeType_GetState ==
    /\ pc = "fetch_GetState"
    /\ \E err \in {StateLookupErr(infraState), Failed("GetStateOutputVariables")} :
         LET d == fetchEIPInternetChargeType_onState(err) IN
         /\ Log(Plain("GetStateOutputVariables", err))
         /\ stateVariables' = IF err = ErrNil THEN <<[vpc_id |-> infraVpcID]>> ELSE <<>>
         /\ chargeType' = d.chargeType
         /\ IF d.next = "query"
            THEN pc' = "fetch_GetEIPInternetChargeType" /\ UNCHANGED result
            ELSE IF d.err # ErrNil
                 THEN Return(d.err)
                 ELSE pc' = "generate_Build" /\ UNCHANGED result
    /\ UNCHANGED <<stable, op, botanist, deployLocals, vals, backupLocals,
                   tfEnv, tfVals, infraEnv, backupEnv, lastBuild>>

\* Line 189: b.AlicloudClient.GetEIPInternetChargeType(stateVariables[vpcID])
fetchEIPInternetChargeType_GetEIPInternetChargeType ==
    /\ pc = "fetch_GetEIPInternetChargeType"
    /\ \/ \E ct \in ChargeTypes :
            /\ chargeType' = ct
            /\ Log(Call("GetEIPInternetChargeType", <<stateVariables[1].vpc_id, ct>>,
                        ErrNil, {}, FALSE))
            /\ pc' = "generate_Build"
            /\ UNCHANGED result
       \/ /\ chargeType' = ""
          /\ Log(Call("GetEIPInternetChargeType", <<stateVariables[1].vpc_id>>,
                      Failed("GetEIPInternetChargeType"), {}, FALSE))
          /\ Return(Failed("GetEIPInternetChargeType"))
    /\ UNCHANGED <<stable, op, botanist, deployLocals, vals, stateVariables, backupLocals,
                   tfEnv, tfVals, infraEnv, backupEnv, lastBuild>>

zonesConfig_firstWorker(zones, workers) ==
    [idx \in 1..Len(zones) |->
        [name |-> zones[idx], cidr |-> [worker |-> workers[1]]]]

\* Lines 144-151: one entry per zone, paired with the worker CIDR of the
\* same index.
zonesConfig(zones, workers) ==
    [idx \in 1..Len(zones) |->
        [name |-> zones[idx], cidr |-> [worker |-> workers[idx]]]]

generateTerraformInfraConfig_swapped(create, id, nat, snat, cidr, ct) ==
    [alicloud |-> [region |-> shoot.region],
     create |-> [vpc |-> create],
     vpc |-> [cidr |-> cidr, id |-> id, natGatewayID |-> snat,
              snatTableID |-> nat, internetChargeType |-> ct],
     clusterName |-> shoot.seedNamespace,
     sshPublicKey |-> sshKey,
     zones |-> zonesConfig(shoot.zones, shoot.workers)]

\* Lines 153-170: the configuration, given the charge type that
\* fetchEIPInternetChargeType returned (line 134).
generateTerraformInfraConfig(create, id, nat, snat, cidr, ct) ==
    [alicloud |-> [region |-> shoot.region],
     create |-> [vpc |-> create],
     vpc |-> [cidr |-> cidr, id |-> id, natGatewayID |-> nat,
              snatTableID |-> snat, internetChargeType |-> ct],
     clusterName |-> shoot.seedNamespace,
     sshPublicKey |-> sshKey,
     zones |-> zonesConfig(shoot.zones, shoot.workers)]

\* The arguments of a generateTerraformInfraConfig call together with the
\* botanist fields it reads.
BuildArgs ==
    [createVPC |-> createVPC, vpcID |-> vpcID, natGatewayID |-> natGatewayID,
     snatTableID |-> snatTableID, vpcCIDR |-> vpcCIDR, shoot |-> shoot,
     sshKey |-> sshKey]

\* Lines 139-170 and 58-61: build the configuration; indexing Workers beyond
\* its length panics.
generateTerraformInfraConfig_Build ==
    /\ pc = "generate_Build"
    /\ IF Len(shoot.workers) < Len(shoot.zones)
       THEN /\ Return(Panic("index out of range"))
            /\ UNCHANGED <<vals, lastBuild>>
       ELSE LET cfg == generateTerraformInfraConfig(createVPC, vpcID, natGatewayID,
                                                    snatTableID, vpcCIDR, chargeType) IN
            /\ vals' = <<cfg>>
            /\ lastBuild' = <<[args |-> BuildArgs, out |-> cfg]>>
            /\ pc' = "Deploy_SetEnv"
            /\ UNCHANGED result
    /\ UNCHANGED <<stable, op, calls, botanist, deployLocals, chargeType, stateVariables,
                   backupLocals, tfEnv, tfVals, infraEnv, backupEnv>>

\* Line 63: tf.SetVariablesEnvironment(...)
DeployInfrastructure_SetEnv ==
    /\ pc = "Deploy_SetEnv"
    /\ tfEnv' = generateTerraformInfraVariablesEnvironment
    /\ Log(Plain("SetVariablesEnvironment", ErrNil))
    /\ pc' = "Deploy_Init"
    /\ UNCHANGED <<stable, op, result, botanist, infraLocals, stateVariables, backupLocals,
                   tfVals, infraEnv, backupEnv, lastBuild>>

\* Line 64: InitializeWith(b.ChartInitializer("alicloud-infra", vals))
DeployInfrastructure_Init ==
    /\ pc = "Deploy_Init"
    /\ tfVals' = vals
    /\ Log(Plain("InitializeWith", ErrNil))
    /\ pc' = "Deploy_Apply"
    /\ UNCHANGED <<stable, op, result, botanist, infraLocals, stateVariables, backupLocals,
                   tfEnv, infraEnv, backupEnv, lastBuild>>

DeployInfrastructure_Apply_retry ==
    /\ pc = "Deploy_Apply"
    /\ \/ /\ infraState' = "present"
          /\ infraVpcID' = IF tfVals[1].create.vpc THEN "vpc-new" ELSE tfVals[1].vpc.id
          /\ infraExists' = TRUE
          /\ Log(Plain("Apply", ErrNil))
          /\ Return(ErrNil)
       \/ /\ infraState' \in StateAfterFailedApply(infraState)
          /\ infraExists' \in {infraExists, TRUE}
          /\ UNCHANGED infraVpcID
          /\ Log(Plain("Apply", Failed("Apply")))
          /\ IF CallIdx({"Apply"}) = {}
             THEN UNCHANGED <<pc, result>>
             ELSE Return(Failed("Apply"))
    /\ UNCHANGED <<stable, op, botanist, infraLocals, stateVariables, backupLocals,
                   tfEnv, tfVals, backupEnv, lastBuild>>

\* Line 65: Apply().  On success the infrastructure exists and the state
\* records its outputs; on failure part of it may exist and no output is
\* recorded.
DeployInfrastructure_Apply ==
    /\ pc = "Deploy_Apply"
    /\ \/ /\ infraState' = "present"
          /\ infraVpcID' = IF tfVals[1].create.vpc THEN "vpc-new" ELSE tfVals[1].vpc.id
          /\ infraExists' = TRUE
          /\ Log(Plain("Apply", ErrNil))
          /\ Return(ErrNil)
       \/ /\ infraState' \in StateAfterFailedApply(infraState)
          /\ infraExists' \in {infraExists, TRUE}
          /\ UNCHANGED infraVpcID
          /\ Log(Plain("Apply", Failed("Apply")))
          /\ Return(Failed("Apply"))
    /\ UNCHANGED <<stable, op, botanist, infraLocals, stateVariables, backupLocals,
                   tfEnv, tfVals, backupEnv, lastBuild>>

\* Lines 70-73
DestroyInfrastructure_New ==
    /\ Begin("DestroyInfrastructure")
    /\ createVPC' = TRUE
    /\ vpcID' = ""
    /\ natGatewayID' = ""
    /\ snatTableID' = ""
    /\ vpcCIDR' = ""
    /\ \/ /\ calls' = <<Plain("NewShootTerraformer", ErrNil)>>
          /\ pc' = "DestroyInfra_SetEnv"
          /\ result' = NoResult
       \/ /\ calls' = <<Plain("NewShootTerraformer", Failed("NewShootTerraformer"))>>
          /\ Return(Failed("NewShootTerraformer"))
    /\ UNCHANGED <<stable, botanist, infraEnv, backupEnv, lastBuild>>

DestroyInfrastructure_SetEnv_seedSecret ==
    /\ pc = "DestroyInfra_SetEnv"
    /\ tfEnv' = generateTerraformBackupVariablesEnvironment
    /\ Log(Plain("SetVariablesEnvironment", ErrNil))
    /\ pc' = "DestroyInfra_Destroy"
    /\ UNCHANGED <<stable, op, result, botanist, infraLocals, stateVariables, backupLocals,
                   tfVals, infraEnv, backupEnv, lastBuild>>

\* Line 75
DestroyInfrastructure_SetEnv ==
    /\ pc = "DestroyInfra_SetEnv"
    /\ tfEnv' = generateTerraformInfraVariablesEnvironment
    /\ Log(Plain("SetVariablesEnvironment", ErrNil))
    /\ pc' = "DestroyInfra_Destroy"
    /\ UNCHANGED <<stable, op, result, botanist, infraLocals, stateVariables, backupLocals,
                   tfVals, infraEnv, backupEnv, lastBuild>>

\* Line 76: Destroy().
DestroyInfrastructure_Destroy ==
    /\ pc = "DestroyInfra_Destroy"
    /\ \/ /\ infraState' = "absent"
          /\ infraVpcID' = ""
          /\ infraExists' = FALSE
          /\ Log(Plain("Destroy", ErrNil))
          /\ Return(ErrNil)
       \/ /\ UNCHANGED infraEnv
          /\ Log(Plain("Destroy", Failed("Destroy")))
          /\ Return(Failed("Destroy"))
    /\ UNCHANGED <<stable, op, botanist, infraLocals, stateVariables, backupLocals,
                   tfEnv, tfVals, backupEnv, lastBuild>>

\* ================================================ infrastructure flow claims
\* The configuration has been handed to Apply, or is about to be.
Submitted ==
    /\ op = "DeployInfrastructure"
    /\ (pc = "Deploy_Apply" \/ CallIdx({"Apply"}) # {})

\* C6: whenever the state lookup for the charge type reports that no prior
\* state exists (in either of the forms the engine reports it), the charge
\* type is the provider default and the deploy does not fail with that result.
C6_ChargeTypeFallback ==
    op = "DeployInfrastructure" =>
        \A i \in CallIdx({"GetStateOutputVariables"}) :
            calls[i].err.kind \in NotFoundStateKinds =>
                /\ chargeType = DefaultInternetChargeType
                /\ result # calls[i].err

\* C7: with an existing VPC id supplied, the configuration submitted to Apply
\* has create.vpc = false, the supplied id, and the CIDR, NAT gateway id and
\* SNAT table id that GetCIDR and GetNatGatewayInfo returned.
C7_AdoptionConfig ==
    (Submitted /\ shoot.vpcID # NilString) =>
        /\ Cardinality(CallIdx({"GetCIDR"})) = 1
        /\ Cardinality(CallIdx({"GetNatGatewayInfo"})) = 1
        /\ LET cfg == tfVals[1]
               c == calls[Max(CallIdx({"GetCIDR"}))]
               n == calls[Max(CallIdx({"GetNatGatewayInfo"}))]
           IN /\ cfg.create.vpc = FALSE
              /\ cfg.vpc.id = shoot.vpcID
              /\ cfg.vpc.cidr = c.ret[1]
              /\ cfg.vpc.natGatewayID = n.ret[1]
              /\ cfg.vpc.snatTableID = n.ret[2]
              /\ cfg.vpc.id # PlaceholderVpcID
              /\ cfg.vpc.natGatewayID # PlaceholderNatGatewayID
              /\ cfg.vpc.snatTableID # PlaceholderSnatTableID

\* An adopted VPC whose discovered CIDR differs from the CIDR of the spec.
C7_Witness ==
    /\ Submitted
    /\ CallIdx({"Apply"}) # {}
    /\ shoot.vpcID = "vpc-1"
    /\ shoot.vpcCIDR = "10.1.0.0/16"
    /\ tfVals[1].vpc.cidr = "10.0.0.0/16"
    /\ tfVals[1].vpc.natGatewayID = "ngw-2"

\* C8: the creation flag of a submitted configuration is true exactly when no
\* VPC id was supplied; in that case the deploy never calls GetCIDR or
\* GetNatGatewayInfo, and the configuration carries the CIDR of the spec and
\* the placeholder references.
C8_CreationDefault ==
    /\ Submitted => (tfVals[1].create.vpc <=> shoot.vpcID = NilString)
    /\ (op = "DeployInfrastructure" /\ shoot.vpcID = NilString) =>
          /\ CallIdx({"GetCIDR", "GetNatGatewayInfo"}) = {}
          /\ Submitted =>
               /\ tfVals[1].vpc.cidr = shoot.vpcCIDR
               /\ tfVals[1].vpc.id = PlaceholderVpcID
               /\ tfVals[1].vpc.natGatewayID = PlaceholderNatGatewayID
               /\ tfVals[1].vpc.snatTableID = PlaceholderSnatTableID

C8_Witness ==
    /\ Submitted
    /\ CallIdx({"Apply"}) # {}
    /\ shoot.vpcID = NilString
    /\ tfVals[1].create.vpc
    /\ tfVals[1].vpc.cidr = "10.1.0.0/16"

\* Every call before index a succeeded, but for a state lookup that reported
\* the not-found result fetchEIPInternetChargeType turns into the default.
PlanningSucceededBefore(a) ==
    /\ \A i \in 1..(a - 1) :
          \/ calls[i].err = ErrNil
          \/ (calls[i].fn = "GetStateOutputVariables" /\ IsNotFound(calls[i].err))
    /\ shoot.vpcID # NilString =>
          \E i, j \in 1..(a - 1) :
              /\ i < j
              /\ calls[i].fn = "GetCIDR"
              /\ calls[j].fn = "GetNatGatewayInfo"
    /\ CallIdx({"GetStateOutputVariables"}) # {}
    /\ chargeType \in ChargeTypes
    /\ vals # <<>>

\* C9: InitializeWith and Apply are called only after every planning step
\* has succeeded and the configuration is built; a failed GetCIDR or
\* GetNatGatewayInfo is the last call of the deploy, which returns that error
\* with no configuration built or bound.
C9_PlanningBeforeConverging ==
    op = "DeployInfrastructure" =>
        /\ \A a \in CallIdx({"SetVariablesEnvironment", "InitializeWith", "Apply"}) :
              PlanningSucceededBefore(a)
        /\ \A a \in CallIdx({"Apply"}) :
              /\ a >= 3
              /\ calls[a - 1].fn = "InitializeWith"
              /\ calls[a - 2].fn = "SetVariablesEnvironment"
              /\ tfVals = vals
        /\ \A i \in CallIdx({"GetCIDR", "GetNatGatewayInfo"}) :
              calls[i].err # ErrNil =>
                  /\ i = Len(calls)
                  /\ pc = "done"
                  /\ result = calls[i].err
                  /\ vals = <<>>
                  /\ tfVals = <<>>

\* GetNatGatewayInfo failed after GetCIDR succeeded.
C9_Witness ==
    /\ op = "DeployInfrastructure"
    /\ pc = "done"
    /\ Len(calls) = 2
    /\ calls[1].err = ErrNil
    /\ calls[2].fn = "GetNatGatewayInfo"
    /\ calls[2].err # ErrNil

\* A build step that follows an earlier build with the same arguments, spec
\* and SSH key produces the same configuration.
C10_Step ==
    (/\ lastBuild # <<>>
     /\ lastBuild' # <<>>
     /\ pc = "generate_Build"
     /\ pc' = "Deploy_SetEnv"
     /\ lastBuild'[1].args = lastBuild[1].args)
        => lastBuild'[1].out = lastBuild[1].out

\* C10: two consecutive builds with identical arguments, spec and SSH key
\* yield identical configurations, whatever the engine state or the provider
\* returned in between.
C10_DeterministicBuild == [][C10_Step]_vars

\* The calls made while generateTerraformInfraConfig runs: those after the
\* NewShootTerraformer of DeployInfrastructure and before the terraformer is
\* given its environment.
BuilderCalls ==
    {i \in 1..Len(calls) :
        /\ op = "DeployInfrastructure"
        /\ \E j \in 1..(i - 1) : calls[j].fn = "NewShootTerraformer"
        /\ \A j \in 1..i : calls[j].fn # "SetVariablesEnvironment"}

\* C11: while generateTerraformInfraConfig runs, no GetStateOutputVariables
\* call and no provider-client query is issued.
C11_BuilderContactsNothing ==
    \A i \in BuilderCalls :
        calls[i].fn \notin {"GetStateOutputVariables", "GetEIPInternetChargeType"}

\* C12 as stated: no deploy queries the provider client for the charge type.
C12_NoProviderQuery ==
    op = "DeployInfrastructure" => CallIdx({"GetEIPInternetChargeType"}) = {}

\* C12, amended: the charge type is resolved by a provider query keyed by the
\* vpc_id read from the prior state.  The query is issued exactly when the
\* state lookup succeeded, directly after it and with the vpc_id of the state,
\* and its answer is the charge type of the configuration; a deploy whose
\* lookup found no state issues no query.
C12_QueryKeyedByState ==
    op = "DeployInfrastructure" =>
        /\ \A i \in CallIdx({"GetEIPInternetChargeType"}) :
              /\ i > 1
              /\ calls[i - 1].fn = "GetStateOutputVariables"
              /\ calls[i - 1].err = ErrNil
              /\ calls[i].ret[1] = stateVariables[1].vpc_id
              /\ (calls[i].err = ErrNil /\ vals # <<>>)
                    => vals[1].vpc.internetChargeType = calls[i].ret[2]
        /\ \A i \in CallIdx({"GetStateOutputVariables"}) :
              /\ (calls[i].err = ErrNil /\ i < Len(calls))
                    => calls[i + 1].fn = "GetEIPInternetChargeType"
              /\ (calls[i].err = ErrNil /\ i = Len(calls))
                    => pc = "fetch_GetEIPInternetChargeType"
              /\ calls[i].err # ErrNil => CallIdx({"GetEIPInternetChargeType"}) = {}

\* A later deploy: state exists, the provider answers, Apply is called.
C12_Witness ==
    /\ op = "DeployInfrastructure"
    /\ CallIdx({"Apply"}) # {}
    /\ \E i \in CallIdx({"GetEIPInternetChargeType"}) :
          /\ calls[i].err = ErrNil
          /\ calls[i].ret[2] # DefaultInternetChargeType
          /\ vals[1].vpc.internetChargeType = calls[i].ret[2]

\* C17: when the zone list and the worker CIDR list have equal length, the
\* zones array of the built configuration has the length and order of the
\* zone list, and its i-th entry pairs zones[i] with workerCIDRs[i].
C17_ZonesAligned ==
    (/\ op = "DeployInfrastructure"
     /\ vals # <<>>
     /\ Len(shoot.zones) = Len(shoot.workers)) =>
        LET z == vals[1].zones IN
        /\ Len(z) = Len(shoot.zones)
        /\ \A i \in 1..Len(shoot.zones) :
              z[i] = [name |-> shoot.zones[i], cidr |-> [worker |-> shoot.workers[i]]]

\* A configuration built for zones in descending name order with worker
\* CIDRs in ascending order: neither list is reordered.
C17_Witness ==
    /\ op = "DeployInfrastructure"
    /\ vals # <<>>
    /\ shoot.zones = <<"b", "a">>
    /\ shoot.workers = <<"w1", "w2">>
    /\ vals[1].zones[1].name = "b"
    /\ vals[1].zones[2].cidr.worker = "w2"

NextInfra ==
    \/ DeployInfrastructure_Begin
    \/ DeployInfrastructure_GetCIDR
    \/ DeployInfrastructure_GetNatGatewayInfo
    \/ DeployInfrastructure_New
    \/ fetchEIPInternetChargeType_New
    \/ fetchEIPInternetChargeType_GetState
    \/ fetchEIPInternetChargeType_GetEIPInternetChargeType
    \/ generateTerraformInfraConfig_Build
    \/ DeployInfrastructure_SetEnv
    \/ DeployInfrastructure_Init
    \/ DeployInfrastructure_Apply
    \/ DestroyInfrastructure_New
    \/ DestroyInfrastructure_SetEnv
    \/ DestroyInfrastructure_Destroy

SpecInfra == InitInfra /\ [][NextInfra]_vars

\* ================================================ retried backup destroy
\* The collaborators of the backup destroy flow stop failing.
Stabilise ==
    /\ ~stable
    /\ stable' = TRUE
    /\ UNCHANGED <<op, pc, calls, result, botanist, infraLocals, stateVariables,
                   backupLocals, tfEnv, tfVals, infraEnv, backupEnv, lastBuild>>

\* DestroyBackupInfrastructure, invoked again and again by its caller.
DestroyBackupFlow ==
    \/ DestroyBackupInfrastructure_New
    \/ DestroyBackupInfrastructure_GetState
    \/ cleanSnapshots_New
    \/ cleanSnapshots_Bucket
    \/ cleanSnapshots_List
    \/ cleanSnapshots_Delete
    \/ DestroyBackupInfrastructure_SetEnv
    \/ DestroyBackupInfrastructure_Destroy

NextRetry ==
    \/ Stabilise
    \/ DestroyBackupInfrastructure_New
    \/ DestroyBackupInfrastructure_GetState
    \/ cleanSnapshots_New
    \/ cleanSnapshots_Bucket
    \/ cleanSnapshots_List
    \/ cleanSnapshots_Delete
    \/ DestroyBackupInfrastructure_SetEnv
    \/ DestroyBackupInfrastructure_Destroy

\* A deployed backup infrastructure whose bucket holds the given objects.
InitDeployed(objs) ==
    /\ InitBotanist
    /\ shoot = [vpcID |-> NilString, vpcCIDR |-> "10.1.0.0/16", zones |-> <<>>,
                workers |-> <<>>, region |-> "cn-beijing",
                seedNamespace |-> "shoot--foo--bar"]
    /\ shootSecret = CHOOSE s \in Secrets : s.accessKeyID = "id-A"
    /\ seedSecret = CHOOSE s \in Secrets : s.accessKeyID = "id-A"
    /\ backupState = "present"
    /\ backupResources = BackupResourceKinds
    /\ objects = objs

\* A full bucket, no writer, a caller that keeps re-invoking the destroy, and
\* collaborators that eventually stop failing.  Every call returns, so every
\* step of the flow is eventually taken.
InitRetry == InitDeployed(Keys)

SpecRetry ==
    InitRetry /\ [][NextRetry]_vars /\ WF_vars(Stabilise) /\ WF_vars(DestroyBackupFlow)

\* Any bucket content, no writer; the collaborators may fail at any call, or never.
InitPurge == \E objs \in SUBSET Keys : InitDeployed(objs)

SpecPurge == InitPurge /\ [][NextRetry]_vars /\ WF_vars(DestroyBackupFlow)

\* ========================================================= all four flows
\* One botanist running all four operations, one at a time.
InitAll ==
    /\ Init
    /\ shoot \in {[vpcID |-> id, vpcCIDR |-> "10.1.0.0/16", zones |-> <<"a">>,
                   workers |-> <<"w1">>, region |-> "cn-beijing",
                   seedNamespace |-> "shoot--foo--bar"] : id \in VpcIDs \cup {NilString}}

\* ============================================= claims on the retried purge
\* A purge call has just been made.
PurgeCalled ==
    /\ Len(calls') = Len(calls) + 1
    /\ calls'[Len(calls')].fn \in {"ListObjects", "DeleteObjects"}

\* Nothing is written to the bucket; a listing enumerates objects that are in
\* the bucket when it is made, and a delete-batch removes exactly its keys,
\* all of them still in the bucket.
C16_Step ==
    /\ objects' \subseteq objects
    /\ PurgeCalled =>
          LET c == calls'[Len(calls')] IN
          /\ c.keys \subseteq objects
          /\ (c.fn = "DeleteObjects" /\ c.err = ErrNil) => (objects' = objects \ c.keys)
          /\ (c.fn = "ListObjects" \/ c.err # ErrNil) => (objects' = objects)

\* The invocation was aborted by a failed list or delete-batch call.
PurgeAborted ==
    /\ op = "DestroyBackupInfrastructure"
    /\ pc = "done"
    /\ \E i \in PurgeIdx : calls[i].err # ErrNil
    /\ result # ErrNil

\* The purge of the invocation succeeded, the bucket is empty and Destroy has
\* been called.
PurgeConverged ==
    /\ op = "DestroyBackupInfrastructure"
    /\ PurgeFullySucceeded
    /\ objects = {}
    /\ CallIdx({"Destroy"}) # {}

\* C16: re-invocations list and delete only what is left in the bucket, and
\* once the backend stops failing, an aborted invocation is eventually
\* followed by one whose purge succeeds with an empty bucket and which calls
\* Destroy.
C16_RetryConverges ==
    /\ [][C16_Step]_vars
    /\ PurgeAborted ~> PurgeConverged

\* A converged invocation that listed some but not all of the objects the
\* bucket started with: an earlier, aborted invocation had deleted the rest.
C16_Witness ==
    /\ PurgeConverged
    /\ LET listed == UNION {calls[i].keys : i \in ListIdx} IN
          /\ listed # {}
          /\ listed # Keys

\* cleanSnapshots is running.
InPurge ==
    /\ op = "DestroyBackupInfrastructure"
    /\ pc \in {"cleanSnapshots_New", "cleanSnapshots_Bucket", "cleanSnapshots_List",
               "cleanSnapshots_Delete"}

\* The list calls a purge of the largest bucket needs.
MostListCalls == MaxObjects \div PageSize + 1

\* C19: for every finite bucket, with a backend that reports continuation
\* truthfully and no writer, cleanSnapshots returns after finitely many
\* iterations: never more list calls than pages, and a running purge
\* eventually ends.
C19_PurgeTerminates ==
    /\ [](Cardinality(ListIdx) <= MostListCalls)
    /\ InPurge ~> ~InPurge

\* A purge that needed the most iterations has returned success.
C19_Witness ==
    /\ op = "DestroyBackupInfrastructure"
    /\ pc = "DestroyBackup_SetEnv"
    /\ Cardinality(ListIdx) = MostListCalls
    /\ Cardinality(DeleteIdx) = MostListCalls

\* ==================================================== claims on all flows
\* The environment SetVariablesEnvironment must receive for a secret.
CredentialsOf(secret) ==
    [TF_VAR_ACCESS_KEY_ID |-> secret.accessKeyID,
     TF_VAR_ACCESS_KEY_SECRET |-> secret.accessKeySecret]

\* The operation is about to call Apply or Destroy, or has called it.
Converging ==
    \/ pc \in {"Deploy_Apply", "DestroyInfra_Destroy", "DeployBackup_Apply",
               "DestroyBackup_Destroy"}
    \/ CallIdx({"Apply", "Destroy"}) # {}

\* C13: whenever Apply or Destroy is called, the environment has been set
\* before, and it holds the credentials of the shoot secret in both
\* infrastructure operations and those of the seed secret in both backup
\* operations: destroy gets the same environment as deploy.
C13_CredentialParity ==
    /\ \A a \in CallIdx({"Apply", "Destroy"}) :
          \E j \in 1..(a - 1) : calls[j].fn = "SetVariablesEnvironment"
    /\ Converging =>
          tfEnv = IF op \in {"DeployInfrastructure", "DestroyInfrastructure"}
                  THEN CredentialsOf(shootSecret)
                  ELSE CredentialsOf(seedSecret)

\* DestroyInfrastructure calls Destroy on infrastructure a deploy created,
\* with shoot and seed secrets that differ.
C13_Witness ==
    /\ op = "DestroyInfrastructure"
    /\ CallIdx({"Destroy"}) # {}
    /\ infraState = "present"
    /\ shootSecret # seedSecret
    /\ tfEnv = CredentialsOf(shootSecret)

\* C14: an invocation calls Apply or Destroy at most once; that call is its
\* last call and its error (or nil) is what the operation returns.
C14_NoInternalRetry ==
    /\ Cardinality(CallIdx({"Apply", "Destroy"})) <= 1
    /\ \A a \in CallIdx({"Apply", "Destroy"}) :
          /\ a = Len(calls)
          /\ pc = "done"
          /\ result = calls[a].err

\* Apply failed in DeployInfrastructure.
C14_Witness ==
    /\ op = "DeployInfrastructure"
    /\ pc = "done"
    /\ CallIdx({"Apply"}) # {}
    /\ result = Failed("Apply")

\* C20: a state lookup error that DestroyBackupInfrastructure does not
\* recognise as variables-not-found ends it with that error before any purge
\* or Destroy call; a state lookup error that fetchEIPInternetChargeType does
\* not recognise as not-found ends DeployInfrastructure with that error before
\* the terraformer is configured or Apply is called.
C20_OtherLookupErrorsAbort ==
    /\ op = "DestroyBackupInfrastructure" =>
          \A i \in CallIdx({"GetStateOutputVariables"}) :
              (calls[i].err # ErrNil /\ ~IsVariablesNotFoundError(calls[i].err)) =>
                  /\ i = Len(calls)
                  /\ pc = "done"
                  /\ result = calls[i].err
                  /\ CallIdx({"oss.New", "client.Bucket", "ListObjects",
                              "DeleteObjects", "SetVariablesEnvironment",
                              "Destroy"}) = {}
    /\ op = "DeployInfrastructure" =>
          \A i \in CallIdx({"GetStateOutputVariables"}) :
              (calls[i].err # ErrNil /\ ~IsNotFound(calls[i].err)) =>
                  /\ i = Len(calls)
                  /\ pc = "done"
                  /\ result = calls[i].err
                  /\ vals = <<>>
                  /\ CallIdx({"GetEIPInternetChargeType", "SetVariablesEnvironment",
                              "InitializeWith", "Apply"}) = {}

\* The lookup of DestroyBackupInfrastructure failed with a plain error while
\* backup resources exist.
C20_Witness ==
    /\ op = "DestroyBackupInfrastructure"
    /\ pc = "done"
    /\ Len(calls) = 2
    /\ calls[2].err = Failed("GetStateOutputVariables")
    /\ result = Failed("GetStateOutputVariables")
    /\ backupState = "present"

\* The four operations; the bucket has no writer here.
Next ==
    \/ DeployBackupInfrastructure_New
    \/ DeployBackupInfrastructure_SetEnv
    \/ DeployBackupInfrastructure_Init
    \/ DeployBackupInfrastructure_Apply
    \/ DestroyBackupInfrastructure_New
    \/ DestroyBackupInfrastructure_GetState
    \/ cleanSnapshots_New
    \/ cleanSnapshots_Bucket
    \/ cleanSnapshots_List
    \/ cleanSnapshots_Delete
    \/ DestroyBackupInfrastructure_SetEnv
    \/ DestroyBackupInfrastructure_Destroy
    \/ NextInfra

Spec == InitAll /\ [][Next]_vars

====
